---- MODULE Spec2Model ----
(***************************************************************************)
(* Model of the discharger package of candid: the visit completer          *)
(* (Success, Failure, RedirectSuccess, RedirectFailure, redirect), the     *)
(* discharge token creator, and the per-request handler creation of the    *)
(* discharger API.                                                         *)
(*                                                                         *)
(* Strings that the code inspects (returnTo, Location) are sequences of    *)
(* tokens, each token a literal piece of text, so that strings.HasPrefix   *)
(* and url.Parse are computed on the text.  Time is counted in minutes.    *)
(***************************************************************************)
EXTENDS Integers, Sequences, FiniteSets, TLC

VARIABLES
    now,         \* the wall clock (time.Now), in minutes
    idStore,     \* params.Store: username -> LastLogin as persisted
    tokenStore,  \* dischargeTokenStore: set of code -> credential entries
    nextCode,    \* number of codes dischargeTokenStore.Put has generated
    place,       \* the rendezvous place: discharge id -> slot
    waiter,      \* the flow blocked in Wait: discharge id -> its position
    call,        \* the last completed call of the visit completer
    delivered,   \* history: discharge id -> the outcomes Done has delivered
    resources,   \* per-request store contexts: resource id -> record
    handlers,    \* handlers returned by handlerCreator: id -> record
    request      \* the outcome of the last handlerCreator / idp handler run

vars == <<now, idStore, tokenStore, nextCode, place, waiter, call,
          delivered, resources, handlers, request>>

---------------------------------------------------------------------------
(* Bounds *)

MaxReturnToLen == 2
MaxTime == 12
MaxCodes == 1
MaxRequests == 3

---------------------------------------------------------------------------
(* Program constants *)

\* 10*time.Minute, in minutes
TenMinutes == 10

\* identityMacaroonDuration = 28 * 24 * time.Hour, in minutes
identityMacaroonDuration == 28 * 24 * 60

dischargeTokenDuration == identityMacaroonDuration

\* params.Location: the service's own base location
Location == <<"https://svc">>

ErrBadRequest == "bad request"
ErrUnauthorized == "unauthorized"

---------------------------------------------------------------------------
(* Values *)

NoCode == ""
NoIdentity == "<nil>"
NoError == [msg |-> "", cause |-> NoCode, isnil |-> TRUE]

Usernames == {"alice", "bob"}
Identities == Usernames \cup {NoIdentity}
DischargeIDs == {"abc123"}
DischargeIDArgs == DischargeIDs \cup {""}
States == {"", "s1"}

\* Pieces of text a returnTo string is made of.
Tokens == {"https://svc", "%zz", "?code=old", "?error=old"}

RECURSIVE SeqsUpTo(_, _)
SeqsUpTo(S, n) ==
    IF n = 0 THEN {<<>>}
    ELSE LET shorter == SeqsUpTo(S, n - 1)
         IN  shorter \cup {Append(s, t) : s \in shorter, t \in S}

ReturnTos == SeqsUpTo(Tokens, MaxReturnToLen)

\* An error value: its message and the cause errgo.Cause reports, here the
\* params.ErrorCode of the cause or NoCode when the cause is no error code.
Err(msg, cause) == [msg |-> msg, cause |-> cause, isnil |-> FALSE]

Errors == {Err(m, c) : m \in {"bad"}, c \in {NoCode, ErrBadRequest, ErrUnauthorized}}

---------------------------------------------------------------------------
(* errgo *)

\* errgo.Mask(err) with no pass predicate: the message is kept, the cause
\* is hidden (the cause of the result is the result itself).
Mask(err) == Err(err.msg, NoCode)

\* errgo.WithCausef(underlying, cause, msg): the message is msg, followed by
\* the underlying error's message when there is an underlying error.
WithCausef(underlying, cause, msg) ==
    Err(IF underlying.isnil THEN msg ELSE msg \o ": " \o underlying.msg, cause)

\* errgo.Cause(err).(params.ErrorCode)
CauseCode(err) == err.cause

---------------------------------------------------------------------------
(* net/url and strings, on token sequences *)

\* strings.HasPrefix(s, prefix)
HasPrefix(s, prefix) ==
    /\ Len(s) >= Len(prefix)
    /\ SubSeq(s, 1, Len(prefix)) = prefix

\* Whether the text of token t starts with "?".
StartsQuery(t) == t \in {"?code=old", "?error=old"}

\* Index of the first token of s that starts with "?", or Len(s) + 1 when
\* there is none.
RECURSIVE QueryStart(_, _)
QueryStart(s, i) ==
    IF i > Len(s) THEN i
    ELSE IF StartsQuery(s[i]) THEN i
    ELSE QueryStart(s, i + 1)

Contains(s, t) == \E i \in 1..Len(s) : s[i] = t

\* The keys url.Values is indexed by in this package.
QueryKeys == {"code", "error", "error_code", "state"}

EmptyValues == [k \in QueryKeys |-> <<>>]

\* The key of the pair that the text of a "?" token opens.
PairKey(t) == IF t = "?code=old" THEN "code" ELSE "error"

\* url.ParseQuery as url.URL.Query uses it, on the raw query that starts
\* with the text of its first token: there is no "&" in the text, so the
\* raw query is one pair, whose value runs to the end (a later "?" is
\* ordinary text there); a pair whose text has an invalid escape is dropped.
ParseQuery(raw) ==
    IF raw = <<>> THEN EmptyValues
    ELSE IF Contains(raw, "%zz") THEN EmptyValues
    ELSE [EmptyValues EXCEPT ![PairKey(raw[1])] =
            << <<"old">> \o SubSeq(raw, 2, Len(raw)) >>]

\* url.Parse(s): an invalid escape ahead of the query is an error; the
\* query itself is not validated.  u.base is the text ahead of the "?",
\* u.raw the tokens from the one that starts with "?".
UrlParse(s) ==
    LET qs == QueryStart(s, 1)
        base == SubSeq(s, 1, qs - 1)
    IN  [ok   |-> ~Contains(base, "%zz"),
         base |-> base,
         raw  |-> SubSeq(s, qs, Len(s))]

\* u.Query()
UrlQuery(u) == ParseQuery(u.raw)

---------------------------------------------------------------------------
(* Macaroons and discharge tokens *)

\* checkers.TimeBeforeCaveat(t)
TimeBeforeCaveat(t) == [cond |-> "time-before", key |-> "", val |-> t]

\* candidclient.UserDeclaration(username)
UserDeclaration(username) ==
    [cond |-> "declared", key |-> "username", val |-> username]

\* Oven.NewMacaroon(ctx, version, caveats, op): the macaroon is its caveats.
NewMacaroon(caveats) == caveats

\* Macaroon.MarshalBinary: the caveats laid out field after field.
RECURSIVE MarshalBinary(_)
MarshalBinary(m) ==
    IF m = <<>> THEN <<>>
    ELSE <<Head(m).cond, Head(m).key, Head(m).val>> \o MarshalBinary(Tail(m))

\* Macaroon.UnmarshalBinary: fails unless the bytes are whole caveats.
WellFormed(v) ==
    /\ Len(v) % 3 = 0
    /\ \A i \in 1..Len(v) : i % 3 = 1 => v[i] \in {"time-before", "declared"}

RECURSIVE UnmarshalCaveats(_)
UnmarshalCaveats(v) ==
    IF v = <<>> THEN <<>>
    ELSE <<[cond |-> v[1], key |-> v[2], val |-> v[3]]>>
            \o UnmarshalCaveats(SubSeq(v, 4, Len(v)))

UnmarshalBinary(v) ==
    IF WellFormed(v) THEN [ok |-> TRUE, m |-> UnmarshalCaveats(v)]
    ELSE [ok |-> FALSE, m |-> <<>>]

\* checkers.InferDeclared(ns, ms)[key]: the value declared for key; a key
\* declared with two different values is treated as not declared.
InferDeclared(m, key) ==
    LET vals == {m[i].val : i \in {j \in 1..Len(m) :
                                   m[j].cond = "declared" /\ m[j].key = key}}
    IN  IF Cardinality(vals) = 1 THEN CHOOSE x \in vals : TRUE ELSE ""

\* The time a macaroon's time-before caveat sets, or -1 when it has none.
ExpiryOf(m) ==
    LET ts == {m[i].val : i \in {j \in 1..Len(m) : m[j].cond = "time-before"}}
    IN  IF ts = {} THEN -1 ELSE CHOOSE t \in ts : \A x \in ts : t <= x

\* httpbakery.DischargeToken
DischargeTokenValue(kind, value) == [Kind |-> kind, Value |-> value]

NoToken == DischargeTokenValue("", <<>>)

usernameFromDischargeToken(dt) ==
    IF dt.Kind # "macaroon" THEN ""
    ELSE LET r == UnmarshalBinary(dt.Value)
         IN  IF ~r.ok THEN "" ELSE InferDeclared(r.m, "username")

---------------------------------------------------------------------------
(* The state a call of the completer works on, and the record of what it did *)

\* st = [idStore, tokenStore, nextCode, place, events]: the shared stores as
\* the call has left them so far and, in events, every effect of the call
\* in the order the code performs them.
Event(ev, arg) == [ev |-> ev, arg |-> arg]

Log(st, ev, arg) == [st EXCEPT !.events = Append(@, Event(ev, arg))]

\* The outcomes of the collaborators that the call cannot control: mint is
\* "ok", or "oven" when Oven.NewMacaroon fails, or "marshal" when
\* MarshalBinary fails; the others tell whether UpdateIdentity, the Done of
\* successToken, the Done of Failure, Put and Store.Identity succeed, and
\* whether the "login" template is missing, executes or fails to execute.
Env(mint, update, doneS, doneF, put, lookup, template) ==
    [mint |-> mint, update |-> update, doneS |-> doneS, doneF |-> doneF,
     put |-> put, lookup |-> lookup, template |-> template]

MintOutcomes == {"ok", "oven", "marshal"}

TemplateOutcomes == {"none", "ok", "fail"}

---------------------------------------------------------------------------
(* Collaborators that live outside the two source files *)

\* httpbakery.Error
BakeryError(code, message) == [Code |-> code, Message |-> message, isnil |-> FALSE]

NilBakeryError == [Code |-> "", Message |-> "", isnil |-> TRUE]

\* httpbakery.ErrorToResponse(ctx, err): the error body keeps the message
\* of err and the code of its cause.
ErrorToResponse(err) == BakeryError(CauseCode(err), err.msg)

\* loginInfo
loginInfo(dt, error) == [DischargeToken |-> dt, Error |-> error]

\* identity.WriteError(ctx, w, err): the error is written to the response.
WriteError(st, err) == Log(st, "WriteError", [err |-> err])

\* A slot of the rendezvous place.
Slot(status, info) == [status |-> status, info |-> info]

NoInfo == loginInfo(NoToken, NilBakeryError)

\* place.Done(ctx, id, info): delivers info to the pending slot of id.  A
\* slot that already holds an outcome rejects it, an id never allocated or
\* already consumed is not found, and the shared store may be unavailable;
\* in these cases nothing is delivered.
PlaceDone(st, id, info, available) ==
    LET slot == st.place[id]
        err  == IF ~available THEN Err("rendezvous store unavailable", NoCode)
                ELSE IF slot.status = "pending" THEN NoError
                ELSE IF slot.status = "done"
                THEN Err("rendezvous already completed", NoCode)
                ELSE Err("rendezvous not found", NoCode)
        st1  == IF err.isnil
                THEN [st EXCEPT !.place[id] = Slot("done", info)]
                ELSE st
    IN  [st  |-> Log(st1, "Done", [id |-> id, info |-> info, err |-> err]),
         err |-> err]

\* The n-th code DischargeTokenStore.Put generates.
CodeOf(n) == "code" \o ToString(n)

\* DischargeTokenStore.Put(ctx, dt, expire): stores dt under a fresh code.
StorePut(st, dt, expire, available) ==
    IF ~available
    THEN [st   |-> Log(st, "Put", [code |-> "", dt |-> dt, expire |-> expire,
                                    ok |-> FALSE]),
          code |-> "",
          err  |-> Err("cannot store discharge token", NoCode)]
    ELSE LET code == CodeOf(st.nextCode + 1)
             st1  == [st EXCEPT
                        !.nextCode = @ + 1,
                        !.tokenStore = @ \cup
                            {[code |-> code, dt |-> dt, expire |-> expire]}]
         IN  [st   |-> Log(st1, "Put", [code |-> code, dt |-> dt,
                                        expire |-> expire, ok |-> TRUE]),
              code |-> code,
              err  |-> NoError]

---------------------------------------------------------------------------
(* dischargeTokenCreator *)

\* DischargeToken returning the error of UpdateIdentity.
DischargeTokenFailsOnUpdateError(st, id, t, env) ==
    IF id = NoIdentity
    THEN [st |-> Log(st, "Panic", [op |-> "DischargeToken"]),
          dt |-> NoToken, err |-> NoError, panic |-> TRUE]
    ELSE IF env.mint # "ok"
    THEN [st |-> Log(st, "NewMacaroon", [ok |-> FALSE]),
          dt |-> NoToken, err |-> Mask(Err("cannot mint macaroon", NoCode)),
          panic |-> FALSE]
    ELSE LET m   == NewMacaroon(<<TimeBeforeCaveat(t + dischargeTokenDuration),
                                  UserDeclaration(id)>>)
             st1 == Log(Log(st, "NewMacaroon", [ok |-> TRUE]),
                        "MarshalBinary", [ok |-> TRUE])
             st2 == IF env.update THEN [st1 EXCEPT !.idStore[id] = t] ELSE st1
             st3 == Log(st2, "UpdateIdentity",
                        [username |-> id, LastLogin |-> t, ok |-> env.update])
         IN  IF env.update
             THEN [st |-> st3,
                   dt |-> DischargeTokenValue("macaroon", MarshalBinary(m)),
                   err |-> NoError, panic |-> FALSE]
             ELSE [st |-> st3, dt |-> NoToken,
                   err |-> Mask(Err("cannot update last login time", NoCode)),
                   panic |-> FALSE]

\* DischargeToken giving the credential the lifetime of a redirect code.
DischargeTokenShortLived(st, id, t, env) ==
    IF id = NoIdentity
    THEN [st |-> Log(st, "Panic", [op |-> "DischargeToken"]),
          dt |-> NoToken, err |-> NoError, panic |-> TRUE]
    ELSE IF env.mint # "ok"
    THEN [st |-> Log(st, "NewMacaroon", [ok |-> FALSE]),
          dt |-> NoToken, err |-> Mask(Err("cannot mint macaroon", NoCode)),
          panic |-> FALSE]
    ELSE LET m   == NewMacaroon(<<TimeBeforeCaveat(t + TenMinutes),
                                  UserDeclaration(id)>>)
             st1 == Log(Log(st, "NewMacaroon", [ok |-> TRUE]),
                        "MarshalBinary", [ok |-> TRUE])
             st2 == IF env.update THEN [st1 EXCEPT !.idStore[id] = t] ELSE st1
             st3 == Log(st2, "UpdateIdentity",
                        [username |-> id, LastLogin |-> t, ok |-> env.update])
         IN  [st |-> st3,
              dt |-> DischargeTokenValue("macaroon", MarshalBinary(m)),
              err |-> NoError, panic |-> FALSE]

\* DischargeToken minting a macaroon that lacks the user declaration.
DischargeTokenNoDeclaration(st, id, t, env) ==
    IF id = NoIdentity
    THEN [st |-> Log(st, "Panic", [op |-> "DischargeToken"]),
          dt |-> NoToken, err |-> NoError, panic |-> TRUE]
    ELSE IF env.mint # "ok"
    THEN [st |-> Log(st, "NewMacaroon", [ok |-> FALSE]),
          dt |-> NoToken, err |-> Mask(Err("cannot mint macaroon", NoCode)),
          panic |-> FALSE]
    ELSE LET m   == NewMacaroon(<<TimeBeforeCaveat(t + dischargeTokenDuration)>>)
             st1 == Log(Log(st, "NewMacaroon", [ok |-> TRUE]),
                        "MarshalBinary", [ok |-> TRUE])
             st2 == IF env.update THEN [st1 EXCEPT !.idStore[id] = t] ELSE st1
             st3 == Log(st2, "UpdateIdentity",
                        [username |-> id, LastLogin |-> t, ok |-> env.update])
         IN  [st |-> st3,
              dt |-> DischargeTokenValue("macaroon", MarshalBinary(m)),
              err |-> NoError, panic |-> FALSE]

\* DischargeToken(ctx, id) at time t.  A nil id is dereferenced when the
\* caveats are built, which panics before anything else happens.
DischargeToken(st, id, t, env) ==
    IF id = NoIdentity
    THEN [st |-> Log(st, "Panic", [op |-> "DischargeToken"]),
          dt |-> NoToken, err |-> NoError, panic |-> TRUE]
    ELSE IF env.mint = "oven"
    THEN [st |-> Log(st, "NewMacaroon", [ok |-> FALSE]),
          dt |-> NoToken, err |-> Mask(Err("cannot mint macaroon", NoCode)),
          panic |-> FALSE]
    ELSE IF env.mint = "marshal"
    THEN [st |-> Log(Log(st, "NewMacaroon", [ok |-> TRUE]),
                     "MarshalBinary", [ok |-> FALSE]),
          dt |-> NoToken, err |-> Mask(Err("cannot marshal macaroon", NoCode)),
          panic |-> FALSE]
    ELSE LET m   == NewMacaroon(<<TimeBeforeCaveat(t + dischargeTokenDuration),
                                  UserDeclaration(id)>>)
             v   == MarshalBinary(m)
             st1 == Log(Log(st, "NewMacaroon", [ok |-> TRUE]),
                        "MarshalBinary", [ok |-> TRUE])
             st2 == IF env.update
                    THEN [st1 EXCEPT !.idStore[id] = t]
                    ELSE st1
             st3 == Log(st2, "UpdateIdentity",
                        [username |-> id, LastLogin |-> t, ok |-> env.update])
         IN  [st |-> st3, dt |-> DischargeTokenValue("macaroon", v),
              err |-> NoError, panic |-> FALSE]

---------------------------------------------------------------------------
(* visitCompleter *)

\* A query value as text.
Text(x) == <<x>>

\* v.Set(key, value) on url.Values
SetValue(v, key, value) == [v EXCEPT ![key] = <<Text(value)>>]

\* redirect with the two conditions of the gate joined by "and": a
\* returnTo is refused only when it fails both.
redirectRefusesOnlyBoth(st, returnTo, query) ==
    LET u        == UrlParse(returnTo)
        parseErr == IF u.ok THEN NoError ELSE Err("invalid URL escape", NoCode)
    IN  IF ~HasPrefix(returnTo, Location) /\ ~u.ok
        THEN [st  |-> st,
              err |-> WithCausef(parseErr, ErrBadRequest, "invalid return_to")]
        ELSE LET q0 == UrlQuery(u)
                 q  == [k \in QueryKeys |-> q0[k] \o query[k]]
             IN  [st  |-> Log(st, "Redirect",
                              [base |-> u.base, query |-> q, status |-> 303]),
                  err |-> NoError]

\* redirect(w, req, returnTo, query)
redirect(st, returnTo, query) ==
    LET u        == UrlParse(returnTo)
        parseErr == IF u.ok THEN NoError ELSE Err("invalid URL escape", NoCode)
    IN  IF ~HasPrefix(returnTo, Location) \/ ~u.ok
        THEN [st  |-> st,
              err |-> WithCausef(parseErr, ErrBadRequest, "invalid return_to")]
        ELSE LET q0 == UrlQuery(u)
                 q  == [k \in QueryKeys |-> q0[k] \o query[k]]
             IN  [st  |-> Log(st, "Redirect",
                              [base |-> u.base, query |-> q, status |-> 303]),
                  err |-> NoError]

\* Failure giving up, with nothing written, when Done returns an error.
FailureSkipsWriteOnDoneError(st, dischargeID, err, env) ==
    LET bakeryErr == ErrorToResponse(err)
        r == IF dischargeID # ""
             THEN PlaceDone(st, dischargeID, loginInfo(NoToken, bakeryErr),
                            env.doneF)
             ELSE [st |-> st, err |-> NoError]
    IN  IF ~r.err.isnil THEN r.st ELSE WriteError(r.st, err)

\* Failure(ctx, w, req, dischargeID, err)
Failure(st, dischargeID, err, env) ==
    LET bakeryErr == ErrorToResponse(err)
        st1 == IF dischargeID # ""
               THEN PlaceDone(st, dischargeID, loginInfo(NoToken, bakeryErr),
                              env.doneF).st
               ELSE st
    IN  WriteError(st1, err)

\* successToken reporting a failed identity lookup as an error instead of
\* logging it.
successTokenAbortsOnLookupError(st, dischargeID, dt, id, env) ==
    LET r == IF dischargeID # ""
             THEN PlaceDone(st, dischargeID, loginInfo(dt, NilBakeryError),
                            env.doneS)
             ELSE [st |-> st, err |-> NoError]
    IN  IF ~r.err.isnil
        THEN Failure(r.st, dischargeID, Mask(r.err), env)
        ELSE LET username == IF id = NoIdentity
                             THEN usernameFromDischargeToken(dt)
                             ELSE id
                 st1 == IF id = NoIdentity
                        THEN Log(r.st, "Identity",
                                 [username |-> username, ok |-> env.lookup])
                        ELSE r.st
             IN  IF id = NoIdentity /\ ~env.lookup
                 THEN WriteError(st1, Mask(Err("cannot look up user identity", NoCode)))
                 ELSE IF env.template = "none"
                 THEN Log(st1, "WriteText", [username |-> username])
                 ELSE Log(st1, "ExecuteTemplate",
                          [username |-> username, ok |-> env.template = "ok"])

\* successToken treating a failure to render the confirmation page as a
\* failure of the login.
successTokenReportsRenderingError(st, dischargeID, dt, id, env) ==
    LET r == IF dischargeID # ""
             THEN PlaceDone(st, dischargeID, loginInfo(dt, NilBakeryError),
                            env.doneS)
             ELSE [st |-> st, err |-> NoError]
    IN  IF ~r.err.isnil
        THEN Failure(r.st, dischargeID, Mask(r.err), env)
        ELSE LET username == IF id = NoIdentity
                             THEN usernameFromDischargeToken(dt)
                             ELSE id
                 st1 == IF id = NoIdentity
                        THEN Log(r.st, "Identity",
                                 [username |-> username, ok |-> env.lookup])
                        ELSE r.st
                 st2 == Log(st1, "ExecuteTemplate",
                            [username |-> username, ok |-> env.template = "ok"])
             IN  IF env.template = "none"
                 THEN Log(st1, "WriteText", [username |-> username])
                 ELSE IF env.template = "ok" THEN st2
                 ELSE Failure(st2, dischargeID,
                              Mask(Err("error processing login template", NoCode)),
                              env)

\* successToken only logging an error of Done and writing the success
\* response all the same.
successTokenIgnoresDoneError(st, dischargeID, dt, id, env) ==
    LET st0 == IF dischargeID # ""
               THEN PlaceDone(st, dischargeID, loginInfo(dt, NilBakeryError),
                              env.doneS).st
               ELSE st
        username == IF id = NoIdentity
                    THEN usernameFromDischargeToken(dt)
                    ELSE id
        st1 == IF id = NoIdentity
               THEN Log(st0, "Identity",
                        [username |-> username, ok |-> env.lookup])
               ELSE st0
    IN  IF env.template = "none"
        THEN Log(st1, "WriteText", [username |-> username])
        ELSE Log(st1, "ExecuteTemplate",
                 [username |-> username, ok |-> env.template = "ok"])

\* successToken(ctx, w, req, dischargeID, dt, id)
successToken(st, dischargeID, dt, id, env) ==
    LET r == IF dischargeID # ""
             THEN PlaceDone(st, dischargeID, loginInfo(dt, NilBakeryError),
                            env.doneS)
             ELSE [st |-> st, err |-> NoError]
    IN  IF ~r.err.isnil
        THEN Failure(r.st, dischargeID, Mask(r.err), env)
        ELSE LET username == IF id = NoIdentity
                             THEN usernameFromDischargeToken(dt)
                             ELSE id
                 st1 == IF id = NoIdentity
                        THEN Log(r.st, "Identity",
                                 [username |-> username, ok |-> env.lookup])
                        ELSE r.st
             IN  IF env.template = "none"
                 THEN Log(st1, "WriteText", [username |-> username])
                 ELSE Log(st1, "ExecuteTemplate",
                          [username |-> username, ok |-> env.template = "ok"])

\* Success without the return after Failure: a minting error is reported
\* and the success path is entered all the same.
SuccessFallsThrough(st, dischargeID, id, t, env) ==
    LET r == DischargeToken(st, id, t, env)
    IN  IF r.panic THEN r.st
        ELSE IF ~r.err.isnil
        THEN successToken(Failure(r.st, dischargeID, Mask(r.err), env),
                          dischargeID, r.dt, id, env)
        ELSE successToken(r.st, dischargeID, r.dt, id, env)

\* Success going on to successToken with whatever DischargeToken returned,
\* error or not.
SuccessIgnoresMintError(st, dischargeID, id, t, env) ==
    LET r == DischargeToken(st, id, t, env)
    IN  IF r.panic THEN r.st
        ELSE successToken(r.st, dischargeID, r.dt, id, env)

\* Success storing the credential under a code, as RedirectSuccess does,
\* before it completes.
SuccessStoresToken(st, dischargeID, id, t, env) ==
    LET r == DischargeToken(st, id, t, env)
    IN  IF r.panic THEN r.st
        ELSE IF ~r.err.isnil
        THEN Failure(r.st, dischargeID, Mask(r.err), env)
        ELSE successToken(StorePut(r.st, r.dt, t + TenMinutes, env.put).st,
                          dischargeID, r.dt, id, env)

\* Success(ctx, w, req, dischargeID, id) at time t
Success(st, dischargeID, id, t, env) ==
    LET r == DischargeToken(st, id, t, env)
    IN  IF r.panic THEN r.st
        ELSE IF ~r.err.isnil
        THEN Failure(r.st, dischargeID, Mask(r.err), env)
        ELSE successToken(r.st, dischargeID, r.dt, id, env)

\* RedirectFailure that never sends error_code.
RedirectFailureOmitsErrorCode(st, returnTo, state, err) ==
    LET v0 == [EmptyValues EXCEPT !["error"] = <<Text(err.msg)>>]
        v1 == IF state # "" THEN SetValue(v0, "state", state) ELSE v0
        rr == redirect(st, returnTo, v1)
    IN  IF rr.err.isnil THEN rr.st ELSE WriteError(rr.st, err)

\* RedirectFailure writing the error of the refused redirect instead of the
\* error it was called with.
RedirectFailureWritesGateError(st, returnTo, state, err) ==
    LET v0 == [EmptyValues EXCEPT !["error"] = <<Text(err.msg)>>]
        v1 == IF state # "" THEN SetValue(v0, "state", state) ELSE v0
        v2 == IF CauseCode(err) # NoCode
              THEN SetValue(v1, "error_code", CauseCode(err))
              ELSE v1
        rr == redirect(st, returnTo, v2)
    IN  IF rr.err.isnil THEN rr.st ELSE WriteError(rr.st, rr.err)

\* RedirectFailure without the return after a redirect that was issued: the
\* error is written as well.
RedirectFailureAlwaysWrites(st, returnTo, state, err) ==
    LET v0 == [EmptyValues EXCEPT !["error"] = <<Text(err.msg)>>]
        v1 == IF state # "" THEN SetValue(v0, "state", state) ELSE v0
        v2 == IF CauseCode(err) # NoCode
              THEN SetValue(v1, "error_code", CauseCode(err))
              ELSE v1
        rr == redirect(st, returnTo, v2)
    IN  WriteError(rr.st, err)

\* RedirectFailure(ctx, w, req, returnTo, state, err)
RedirectFailure(st, returnTo, state, err) ==
    LET v0 == [EmptyValues EXCEPT !["error"] = <<Text(err.msg)>>]
        v1 == IF state # "" THEN SetValue(v0, "state", state) ELSE v0
        v2 == IF CauseCode(err) # NoCode
              THEN SetValue(v1, "error_code", CauseCode(err))
              ELSE v1
        rr == redirect(st, returnTo, v2)
    IN  IF rr.err.isnil THEN rr.st ELSE WriteError(rr.st, err)

\* RedirectSuccess storing the credential for the lifetime of the credential
\* instead of ten minutes.
RedirectSuccessLongLivedCode(st, returnTo, state, id, t, env) ==
    LET r == DischargeToken(st, id, t, env)
    IN  IF r.panic THEN r.st
        ELSE IF ~r.err.isnil
        THEN RedirectFailure(r.st, returnTo, state, Mask(r.err))
        ELSE LET p == StorePut(r.st, r.dt, t + dischargeTokenDuration, env.put)
             IN  IF ~p.err.isnil
                 THEN RedirectFailure(p.st, returnTo, state, Mask(p.err))
                 ELSE LET v0 == [EmptyValues EXCEPT !["code"] = <<Text(p.code)>>]
                          v1 == IF state # ""
                                THEN SetValue(v0, "state", state)
                                ELSE v0
                          rr == redirect(p.st, returnTo, v1)
                      IN  IF ~rr.err.isnil
                          THEN WriteError(rr.st, rr.err)
                          ELSE rr.st

\* RedirectSuccess evaluating the redirect safety gate before it mints: a
\* returnTo the gate rejects is refused with nothing minted or stored.
RedirectSuccessChecksGateFirst(st, returnTo, state, id, t, env) ==
    LET gate == redirect(st, returnTo, EmptyValues)
        r    == DischargeToken(st, id, t, env)
    IN  IF ~gate.err.isnil THEN WriteError(st, gate.err)
        ELSE IF r.panic THEN r.st
        ELSE IF ~r.err.isnil
        THEN RedirectFailure(r.st, returnTo, state, Mask(r.err))
        ELSE LET p == StorePut(r.st, r.dt, t + TenMinutes, env.put)
             IN  IF ~p.err.isnil
                 THEN RedirectFailure(p.st, returnTo, state, Mask(p.err))
                 ELSE LET v0 == [EmptyValues EXCEPT !["code"] = <<Text(p.code)>>]
                          v1 == IF state # ""
                                THEN SetValue(v0, "state", state)
                                ELSE v0
                      IN  redirect(p.st, returnTo, v1).st

\* RedirectSuccess(ctx, w, req, returnTo, state, id) at time t
RedirectSuccess(st, returnTo, state, id, t, env) ==
    LET r == DischargeToken(st, id, t, env)
    IN  IF r.panic THEN r.st
        ELSE IF ~r.err.isnil
        THEN RedirectFailure(r.st, returnTo, state, Mask(r.err))
        ELSE LET p == StorePut(r.st, r.dt, t + TenMinutes, env.put)
             IN  IF ~p.err.isnil
                 THEN RedirectFailure(p.st, returnTo, state, Mask(p.err))
                 ELSE LET v0 == [EmptyValues EXCEPT !["code"] = <<Text(p.code)>>]
                          v1 == IF state # ""
                                THEN SetValue(v0, "state", state)
                                ELSE v0
                          rr == redirect(p.st, returnTo, v1)
                      IN  IF ~rr.err.isnil
                          THEN WriteError(rr.st, rr.err)
                          ELSE rr.st

---------------------------------------------------------------------------
(* Calls of the completer as actions *)

NeverLoggedIn == -1

NoCall ==
    [op |-> "none", dischargeID |-> "", returnTo |-> <<>>, state |-> "",
     id |-> NoIdentity, err |-> NoError, dt |-> NoToken, at |-> 0,
     events |-> <<>>]

Start ==
    [idStore |-> idStore, tokenStore |-> tokenStore, nextCode |-> nextCode,
     place |-> place, events |-> <<>>]

IsDone(e) == e.ev = "Done"

\* The Done calls among events that delivered an outcome to discharge id d,
\* each with the call that made it: its operation and identity, whether it
\* had minted a credential, and whether the delivering Done was its first.
Deliveries(events, d, c) ==
    LET isDone(i) == IsDone(events[i])
        ok(i)     == isDone(i) /\ events[i].arg.id = d /\ events[i].arg.err.isnil
        at        == SelectSeq([i \in 1..Len(events) |-> i], ok)
        rec(i)    == [op |-> c.op, id |-> c.id,
                      minted |-> \E j \in 1..Len(events) :
                                    events[j].ev = "UpdateIdentity",
                      first |-> \A j \in 1..(i - 1) : ~isDone(j),
                      info |-> events[i].arg.info]
    IN  [k \in 1..Len(at) |-> rec(at[k])]

\* The call returns: the stores are as the call left them.
Commit(st, c) ==
    /\ idStore' = st.idStore
    /\ tokenStore' = st.tokenStore
    /\ nextCode' = st.nextCode
    /\ place' = st.place
    /\ call' = [c EXCEPT !.events = st.events, !.at = now]
    /\ delivered' = [d \in DischargeIDs |->
            delivered[d] \o Deliveries(st.events, d, c)]

\* A well-formed macaroon value declaring the given usernames.
MacaroonValue(users) ==
    MarshalBinary(<<TimeBeforeCaveat(dischargeTokenDuration)>>
                    \o [i \in 1..Len(users) |-> UserDeclaration(users[i])])

\* The discharge tokens a token-only completion may present.
PresentedTokens ==
    {DischargeTokenValue("macaroon", MacaroonValue(<<u>>)) : u \in Usernames}
    \cup {DischargeTokenValue("macaroon", MacaroonValue(<<>>)),
          DischargeTokenValue("macaroon", MacaroonValue(<<"alice", "bob">>)),
          DischargeTokenValue("macaroon", <<"junk">>),
          DischargeTokenValue("agent", MacaroonValue(<<"alice">>))}


\* No call's record is on display: the previous response has been taken.
Idle == call.op = "none"

\* The time between two observations of the clock.
TickStep == TenMinutes + 2

SuccessCall ==
    \E d \in DischargeIDArgs, id \in Identities, mint \in MintOutcomes,
       update \in BOOLEAN, doneS \in BOOLEAN, doneF \in BOOLEAN,
       lookup \in BOOLEAN, template \in TemplateOutcomes :
        /\ Idle
        /\ Commit(Success(Start, d, id, now,
                          Env(mint, update, doneS, doneF, TRUE, lookup, template)),
                  [NoCall EXCEPT !.op = "Success", !.dischargeID = d, !.id = id])
        /\ UNCHANGED <<now, waiter, resources, handlers, request>>

\* The completion of a login with an existing discharge token, which calls
\* successToken directly, with or without an identity.
SuccessTokenCall ==
    \E d \in DischargeIDArgs, dt \in PresentedTokens, id \in Identities,
       doneS \in BOOLEAN, doneF \in BOOLEAN, lookup \in BOOLEAN,
       template \in TemplateOutcomes :
        /\ Idle
        /\ Commit(successToken(Start, d, dt, id,
                               Env("ok", TRUE, doneS, doneF, TRUE, lookup, template)),
                  [NoCall EXCEPT !.op = "successToken", !.dischargeID = d,
                                 !.id = id, !.dt = dt])
        /\ UNCHANGED <<now, waiter, resources, handlers, request>>

FailureCall ==
    \E d \in DischargeIDArgs, err \in Errors, doneF \in BOOLEAN :
        /\ Idle
        /\ Commit(Failure(Start, d, err,
                          Env("ok", TRUE, TRUE, doneF, TRUE, TRUE, "none")),
                  [NoCall EXCEPT !.op = "Failure", !.dischargeID = d,
                                 !.err = err])
        /\ UNCHANGED <<now, waiter, resources, handlers, request>>

RedirectSuccessCall ==
    \E returnTo \in ReturnTos, state \in States, id \in Identities,
       mint \in MintOutcomes, update \in BOOLEAN, put \in BOOLEAN :
        /\ Idle
        /\ nextCode < MaxCodes
        /\ Commit(RedirectSuccess(Start, returnTo, state, id, now,
                                  Env(mint, update, TRUE, TRUE, put, TRUE, "none")),
                  [NoCall EXCEPT !.op = "RedirectSuccess",
                                 !.returnTo = returnTo, !.state = state,
                                 !.id = id])
        /\ UNCHANGED <<now, waiter, resources, handlers, request>>

RedirectFailureCall ==
    \E returnTo \in ReturnTos, state \in States, err \in Errors :
        /\ Idle
        /\ Commit(RedirectFailure(Start, returnTo, state, err),
                  [NoCall EXCEPT !.op = "RedirectFailure",
                                 !.returnTo = returnTo, !.state = state,
                                 !.err = err])
        /\ UNCHANGED <<now, waiter, resources, handlers, request>>

\* The response of the last call has been taken; the next call may start.
Return ==
    /\ ~Idle
    /\ call' = NoCall
    /\ UNCHANGED <<now, idStore, tokenStore, nextCode, place, waiter,
                   delivered, resources, handlers, request>>

\* Time passes.
Tick ==
    /\ now + TickStep <= MaxTime
    /\ now' = now + TickStep
    /\ UNCHANGED <<idStore, tokenStore, nextCode, place, waiter, call,
                   delivered, resources, handlers, request>>

---------------------------------------------------------------------------
(* The other ends: the discharge token store's reader and the waiter *)

\* DischargeTokenStore.Get(ctx, code) at time t: the credential stored under
\* code if it has not expired; a code is good for one Get.
StoreGet(st, code, t) ==
    LET hit == {e \in st.tokenStore : e.code = code /\ t <= e.expire}
    IN  IF hit # {}
        THEN Log([st EXCEPT !.tokenStore = @ \ hit], "Get",
                 [code |-> code, ok |-> TRUE, dt |-> (CHOOSE e \in hit : TRUE).dt])
        ELSE Log(st, "Get", [code |-> code, ok |-> FALSE, dt |-> NoToken])

\* The redirect target exchanges a code for the credential.
GetCall ==
    \E n \in 1..MaxCodes :
        /\ Idle
        /\ Commit(StoreGet(Start, CodeOf(n), now), [NoCall EXCEPT !.op = "Get"])
        /\ UNCHANGED <<now, waiter, resources, handlers, request>>

\* NewRendezvous: allocates the pending slot of a discharge id, once.
NewRendezvous ==
    \E d \in DischargeIDs :
        /\ place[d].status = "unknown"
        /\ place' = [place EXCEPT ![d] = Slot("pending", NoInfo)]
        /\ UNCHANGED <<now, idStore, tokenStore, nextCode, waiter, call,
                       delivered, resources, handlers, request>>

Waiter(status, info) == [status |-> status, info |-> info]

\* Wait(id, deadline) is entered.
WaitStart ==
    \E d \in DischargeIDs :
        /\ waiter[d].status = "idle"
        /\ waiter' = [waiter EXCEPT ![d] =
                IF place[d].status \in {"pending", "done"}
                THEN Waiter("waiting", NoInfo)
                ELSE Waiter("notfound", NoInfo)]
        /\ UNCHANGED <<now, idStore, tokenStore, nextCode, place, call,
                       delivered, resources, handlers, request>>

\* Wait observes the outcome delivered by Done and returns it.
WaitReturn ==
    \E d \in DischargeIDs :
        /\ waiter[d].status = "waiting"
        /\ place[d].status = "done"
        /\ waiter' = [waiter EXCEPT ![d] = Waiter("returned", place[d].info)]
        /\ place' = [place EXCEPT ![d] = Slot("consumed", NoInfo)]
        /\ UNCHANGED <<now, idStore, tokenStore, nextCode, call,
                       delivered, resources, handlers, request>>

\* The deadline of Wait passes with no outcome delivered.
WaitTimeout ==
    \E d \in DischargeIDs :
        /\ waiter[d].status = "waiting"
        /\ place[d].status = "pending"
        /\ waiter' = [waiter EXCEPT ![d] = Waiter("timeout", NoInfo)]
        /\ place' = [place EXCEPT ![d] = Slot("consumed", NoInfo)]
        /\ UNCHANGED <<now, idStore, tokenStore, nextCode, call,
                       delivered, resources, handlers, request>>

---------------------------------------------------------------------------
(* handlerCreator, handler.Close and newIDPHandler *)

\* A store context: which store it belongs to and how often its close
\* function has run.
Resource(kind) == [kind |-> kind, releases |-> 0]

\* Store.Context(ctx) / MeetingStore.Context(ctx): the new context is the
\* last element of the result.
Acquire(res, kind) == Append(res, Resource(kind))

\* The close function a Context call returned.
Release(res, rid) == [res EXCEPT ![rid].releases = @ + 1]

\* The close closure of a handler: close2() then close1().
HandlerCloseFunc(res, h) == Release(Release(res, h.close2), h.close1)

\* handlerCreator returning the authorization error without hnd.Close().
handlerCreatorLeaksOnAuthError(res, entity, authOK) ==
    LET res1 == Acquire(res, "store")
        c1   == Len(res1)
        res2 == Acquire(res1, "meeting")
        c2   == Len(res2)
        hnd  == [close1 |-> c1, close2 |-> c2, closed |-> FALSE]
    IN  IF entity = ""
        THEN [res |-> HandlerCloseFunc(res2, hnd), hnd |-> hnd,
              returned |-> FALSE, err |-> ErrUnauthorized]
        ELSE IF ~authOK
        THEN [res |-> res2, hnd |-> hnd,
              returned |-> FALSE, err |-> "auth failed"]
        ELSE [res |-> res2, hnd |-> hnd, returned |-> TRUE, err |-> ""]

\* handlerCreator's function for one request whose operation has the given
\* entity and whose authorization ends as authOK.
handlerCreator(res, entity, authOK) ==
    LET res1 == Acquire(res, "store")
        c1   == Len(res1)
        res2 == Acquire(res1, "meeting")
        c2   == Len(res2)
        hnd  == [close1 |-> c1, close2 |-> c2, closed |-> FALSE]
    IN  IF entity = ""
        THEN [res |-> HandlerCloseFunc(res2, hnd), hnd |-> hnd,
              returned |-> FALSE, err |-> ErrUnauthorized]
        ELSE IF ~authOK
        THEN [res |-> HandlerCloseFunc(res2, hnd), hnd |-> hnd,
              returned |-> FALSE, err |-> "auth failed"]
        ELSE [res |-> res2, hnd |-> hnd, returned |-> TRUE, err |-> ""]

\* The handler function of newIDPHandler: both contexts are acquired, the
\* identity provider handles the request, and the deferred close functions
\* run when the function returns or panics.
newIDPHandler(res) ==
    LET res1 == Acquire(res, "store")
        c1   == Len(res1)
        res2 == Acquire(res1, "meeting")
        c2   == Len(res2)
    IN  Release(Release(res2, c2), c1)

Entities == {"", "global-login"}

CreateHandler ==
    \E entity \in Entities, authOK \in BOOLEAN :
        LET r == handlerCreator(resources, entity, authOK)
        IN  /\ Len(resources) + 2 <= 2 * MaxRequests
            /\ resources' = r.res
            /\ handlers' = IF r.returned THEN Append(handlers, r.hnd)
                           ELSE handlers
            /\ request' = [op |-> "handlerCreator", entity |-> entity,
                           authOK |-> authOK, returned |-> r.returned,
                           err |-> r.err, first |-> Len(resources) + 1]
            /\ UNCHANGED <<now, idStore, tokenStore, nextCode, place, waiter,
                           call, delivered>>

\* handler.Close, which httprequest calls once the request is complete.
CloseHandler ==
    \E i \in 1..Len(handlers) :
        /\ ~handlers[i].closed
        /\ resources' = HandlerCloseFunc(resources, handlers[i])
        /\ handlers' = [handlers EXCEPT ![i].closed = TRUE]
        /\ request' = [op |-> "Close", entity |-> "", authOK |-> TRUE,
                       returned |-> FALSE, err |-> "",
                       first |-> handlers[i].close1]
        /\ UNCHANGED <<now, idStore, tokenStore, nextCode, place, waiter,
                       call, delivered>>

ServeIDP ==
    /\ Len(resources) + 2 <= 2 * MaxRequests
    /\ resources' = newIDPHandler(resources)
    /\ request' = [op |-> "newIDPHandler", entity |-> "", authOK |-> TRUE,
                   returned |-> FALSE, err |-> "",
                   first |-> Len(resources) + 1]
    /\ UNCHANGED <<now, idStore, tokenStore, nextCode, place, waiter, call,
                   delivered, handlers>>

---------------------------------------------------------------------------
(* Specifications *)

NoRequest ==
    [op |-> "none", entity |-> "", authOK |-> TRUE, returned |-> FALSE,
     err |-> "", first |-> 0]

Init ==
    /\ now = 0
    /\ idStore = [u \in Usernames |-> NeverLoggedIn]
    /\ tokenStore = {}
    /\ nextCode = 0
    /\ place = [d \in DischargeIDs |-> Slot("unknown", NoInfo)]
    /\ waiter = [d \in DischargeIDs |-> Waiter("idle", NoInfo)]
    /\ call = NoCall
    /\ delivered = [d \in DischargeIDs |-> <<>>]
    /\ resources = <<>>
    /\ handlers = <<>>
    /\ request = NoRequest

\* The redirect flow: the completer's redirect calls and the code exchange.
NextRedirect ==
    \/ RedirectSuccessCall
    \/ RedirectFailureCall
    \/ GetCall
    \/ Return
    \/ Tick

\* The direct flow: the completer's direct calls and the waiting end.
NextDirect ==
    \/ SuccessCall
    \/ SuccessTokenCall
    \/ FailureCall
    \/ Return
    \/ NewRendezvous
    \/ WaitStart
    \/ WaitReturn
    \/ WaitTimeout

\* Request handling of the discharger API and of the login endpoints.
NextHandler ==
    \/ CreateHandler
    \/ CloseHandler
    \/ ServeIDP

\* Minting, from both flows.
NextMint ==
    \/ SuccessCall
    \/ RedirectSuccessCall
    \/ NewRendezvous
    \/ Return
    \/ Tick

\* The four completions of the two modes, side by side.
NextModes ==
    \/ SuccessCall
    \/ FailureCall
    \/ RedirectSuccessCall
    \/ RedirectFailureCall
    \/ NewRendezvous
    \/ Return

Next == NextRedirect \/ NextDirect \/ NextHandler

Spec == Init /\ [][Next]_vars

SpecRedirect == Init /\ [][NextRedirect]_vars

SpecDirect == Init /\ [][NextDirect]_vars

SpecHandler == Init /\ [][NextHandler]_vars

SpecModes == Init /\ [][NextModes]_vars

SpecMint == Init /\ [][NextMint]_vars

---------------------------------------------------------------------------
(* Reading the record of the last call *)

\* The events of the last call that are of kind ev, in order.
EventsOf(ev) ==
    LET is(e) == e.ev = ev
    IN  SelectSeq(call.events, is)

Happened(ev) == \E i \in 1..Len(call.events) : call.events[i].ev = ev

\* The position of the first event of kind ev in the last call, 0 if none.
FirstIndex(ev) ==
    IF Happened(ev)
    THEN CHOOSE i \in 1..Len(call.events) :
            /\ call.events[i].ev = ev
            /\ \A j \in 1..(i - 1) : call.events[j].ev # ev
    ELSE 0

IsRedirectCall == call.op \in {"RedirectSuccess", "RedirectFailure"}

\* The redirect safety gate as the specification words it.
GateAccepts(returnTo) == UrlParse(returnTo).ok /\ HasPrefix(returnTo, Location)

---------------------------------------------------------------------------
(* C1 *)

\* C1: a call of RedirectSuccess or RedirectFailure issues a redirect only
\* if returnTo parses as a URL and starts with Location; with a returnTo
\* that Location does not prefix no redirect is issued.
C1_RedirectOnlyToOwnLocation ==
    IsRedirectCall =>
        /\ Happened("Redirect") => GateAccepts(call.returnTo)
        /\ ~HasPrefix(call.returnTo, Location) => ~Happened("Redirect")
        /\ Len(EventsOf("Redirect")) <= 1

\* A returnTo that holds Location, but not at its start, was refused.
C1_Witness ==
    /\ IsRedirectCall
    /\ Contains(call.returnTo, "https://svc")
    /\ ~HasPrefix(call.returnTo, Location)
    /\ UrlParse(call.returnTo).ok
    /\ ~Happened("Redirect")
    /\ Happened("WriteError")

---------------------------------------------------------------------------
(* C2 *)

GateRejected ==
    /\ IsRedirectCall
    /\ ~Happened("Panic")
    /\ ~GateAccepts(call.returnTo)

PutSucceeded ==
    /\ Happened("Put")
    /\ call.events[FirstIndex("Put")].arg.ok

\* The errors DischargeToken and Put hand to RedirectSuccess, masked as
\* RedirectSuccess masks them.
MaskedStepErrors ==
    {Mask(Err(m, NoCode)) : m \in {"cannot mint macaroon",
                                   "cannot marshal macaroon",
                                   "cannot store discharge token"}}

\* C2 as stated: whenever the gate rejects returnTo, the error written
\* inline is a BadRequest error, in RedirectSuccess and in RedirectFailure.
C2_RejectionWritesBadRequest ==
    GateRejected =>
        /\ Len(EventsOf("WriteError")) = 1
        /\ EventsOf("WriteError")[1].arg.err.cause = ErrBadRequest

\* C2 as amended: when the gate rejects returnTo, exactly one error is
\* written inline.  It is a BadRequest error when the rejected redirect is
\* the one RedirectSuccess issues itself after minting and Put succeeded.
\* When the redirect is rejected inside RedirectFailure, the error written
\* is the one RedirectFailure was called with: the caller's error for a
\* direct call, the masked minting or Put error when RedirectSuccess fell
\* back to RedirectFailure.
C2_RejectionWritesCallersError ==
    GateRejected =>
        /\ Len(EventsOf("WriteError")) = 1
        /\ LET w == EventsOf("WriteError")[1].arg.err
           IN  IF call.op = "RedirectFailure" THEN w = call.err
               ELSE IF PutSucceeded THEN w.cause = ErrBadRequest
               ELSE w \in MaskedStepErrors

\* RedirectFailure was called with an Unauthorized error and a returnTo the
\* gate rejects, and wrote the Unauthorized error.
C2_Witness ==
    /\ GateRejected
    /\ call.op = "RedirectFailure"
    /\ call.err.cause = ErrUnauthorized
    /\ EventsOf("WriteError") = <<Event("WriteError", [err |-> call.err])>>

---------------------------------------------------------------------------
(* C3 *)

Dones == EventsOf("Done")

\* The last call was Success or Failure for a discharge id that is not empty.
DirectCallWithID ==
    /\ call.op \in {"Success", "Failure"}
    /\ call.dischargeID # ""

\* C3 as stated: within one call of Success or Failure for a non-empty
\* discharge id, Done is invoked at most once on every path.
C3_DoneInvokedAtMostOnce == DirectCallWithID => Len(Dones) <= 1

\* C3 as amended: within one call of Success or Failure for a non-empty
\* discharge id d every Done is for d, and Done is invoked at most once,
\* except that when the Done that carries the Success outcome returns an
\* error Failure invokes Done a second time, with a Failure outcome.  At
\* most one of the invocations delivers its outcome, and no discharge id is
\* ever delivered more than one outcome.
C3_DoneTwiceOnlyAfterFailedDone ==
    /\ DirectCallWithID =>
        /\ Len(Dones) <= 2
        /\ \A i \in 1..Len(Dones) : Dones[i].arg.id = call.dischargeID
        /\ call.op = "Failure" => Len(Dones) <= 1
        /\ Len(Dones) = 2 =>
                /\ Dones[1].arg.info.Error.isnil
                /\ ~Dones[1].arg.err.isnil
                /\ ~Dones[2].arg.info.Error.isnil
        /\ Cardinality({i \in 1..Len(Dones) : Dones[i].arg.err.isnil}) <= 1
    /\ \A d \in DischargeIDs : Len(delivered[d]) <= 1

\* Success invoked Done twice: the first returned an error, the second
\* delivered the Failure outcome.
C3_Witness ==
    /\ DirectCallWithID
    /\ call.op = "Success"
    /\ Len(Dones) = 2
    /\ ~Dones[1].arg.err.isnil
    /\ Dones[2].arg.err.isnil
    /\ place[call.dischargeID].status = "done"

---------------------------------------------------------------------------
(* C4 *)

\* A delivery made by a call of Success in which minting succeeded and the
\* Done carrying the Success outcome returned no error.
DeliveredBySuccess(rec) ==
    /\ rec.op = "Success"
    /\ rec.minted
    /\ rec.first

\* C4: if Success is called for discharge id d and identity U, and minting
\* and Done succeed, then in any interleaving with the waiting flow Wait(d)
\* does not time out, and what it returns is a Success outcome whose
\* credential has Kind "macaroon" and declares username U, with no error.
C4_WaitReturnsCredentialOfU ==
    \A d \in DischargeIDs : \A i \in 1..Len(delivered[d]) :
        DeliveredBySuccess(delivered[d][i]) =>
            /\ waiter[d].status # "timeout"
            /\ waiter[d].status = "returned" =>
                    /\ waiter[d].info.DischargeToken.Kind = "macaroon"
                    /\ usernameFromDischargeToken(waiter[d].info.DischargeToken)
                            = delivered[d][i].id
                    /\ waiter[d].info.Error.isnil

\* Wait("abc123") has returned the outcome that Success delivered for bob.
C4_Witness ==
    /\ waiter["abc123"].status = "returned"
    /\ Len(delivered["abc123"]) = 1
    /\ DeliveredBySuccess(delivered["abc123"][1])
    /\ delivered["abc123"][1].id = "bob"
    /\ usernameFromDischargeToken(waiter["abc123"].info.DischargeToken) = "bob"

---------------------------------------------------------------------------
(* C5 *)

\* C5: Failure called for a non-empty discharge id d with error e invokes
\* Done(d, .) with a Failure outcome that carries the error code and the
\* message of e and no credential, then writes e to the response, and
\* writes it whether or not Done returned an error; when Done returned no
\* error the slot of d holds that Failure outcome.
C5_FailureDeliversThenWrites ==
    (call.op = "Failure" /\ call.dischargeID # "") =>
        /\ Len(call.events) = 2
        /\ call.events[1].ev = "Done"
        /\ call.events[1].arg.id = call.dischargeID
        /\ call.events[1].arg.info =
                loginInfo(NoToken,
                          BakeryError(CauseCode(call.err), call.err.msg))
        /\ call.events[2] = Event("WriteError", [err |-> call.err])
        /\ call.events[1].arg.err.isnil =>
                \E i \in 1..Len(delivered[call.dischargeID]) :
                    delivered[call.dischargeID][i].info = call.events[1].arg.info

\* Failure for "abc123" with a BadRequest error delivered the outcome and
\* wrote the error.
C5_Witness ==
    /\ call.op = "Failure"
    /\ call.dischargeID = "abc123"
    /\ call.err.cause = ErrBadRequest
    /\ Len(call.events) = 2
    /\ call.events[1].arg.err.isnil
    /\ place["abc123"].info.Error.Code = ErrBadRequest
    /\ call.events[2].ev = "WriteError"

---------------------------------------------------------------------------
(* C6 *)

\* The last call was RedirectSuccess with a returnTo the gate accepts, and
\* minting and Put succeeded.
RedirectSuccessCompleted ==
    /\ call.op = "RedirectSuccess"
    /\ GateAccepts(call.returnTo)
    /\ PutSucceeded

ThePut == call.events[FirstIndex("Put")].arg

TheRedirect == call.events[FirstIndex("Redirect")].arg

\* The parameters returnTo carries in its own query.
OwnQuery == UrlQuery(UrlParse(call.returnTo))

StateParam == IF call.state # "" THEN <<Text(call.state)>> ELSE <<>>

\* Exactly one credential, declaring the identity of the call, was stored
\* with an expiry ten minutes after the call, and until that expiry a Get of
\* its code returns it.
StoredForTenMinutes ==
    /\ Len(EventsOf("Put")) = 1
    /\ ThePut.expire = call.at + TenMinutes
    /\ ThePut.dt.Kind = "macaroon"
    /\ usernameFromDischargeToken(ThePut.dt) = call.id
    /\ {e \in tokenStore : e.code = ThePut.code}
            = {[code |-> ThePut.code, dt |-> ThePut.dt, expire |-> ThePut.expire]}
    /\ \A t \in call.at..ThePut.expire :
            LET g == StoreGet(Start, ThePut.code, t).events[1].arg
            IN  g.ok /\ g.dt = ThePut.dt

\* C6 as stated: RedirectSuccess with an accepted returnTo, when minting
\* and Put succeed, stores one credential declaring U for ten minutes and
\* redirects to returnTo with code equal to the code of that Put, state iff
\* state is not empty, and no error parameter.
C6_RedirectCarriesOnlyTheCode ==
    RedirectSuccessCompleted =>
        /\ StoredForTenMinutes
        /\ Len(EventsOf("Redirect")) = 1
        /\ ~Happened("WriteError")
        /\ TheRedirect.base = UrlParse(call.returnTo).base
        /\ TheRedirect.query["code"] = <<Text(ThePut.code)>>
        /\ TheRedirect.query["state"] = StateParam
        /\ TheRedirect.query["error"] = <<>>
        /\ TheRedirect.query["error_code"] = <<>>

\* C6 as amended: as stated, except for the query of the redirect, which
\* keeps every parameter that returnTo already carries in its own query and
\* has code=<the code of that Put>, and state=s iff s is not empty, appended
\* after them.  RedirectSuccess adds no error parameter, so the redirect
\* has one only if returnTo itself has, and code has the code of the Put as
\* its only value only if returnTo itself has no code parameter.
C6_RedirectAppendsTheCode ==
    RedirectSuccessCompleted =>
        /\ StoredForTenMinutes
        /\ Len(EventsOf("Redirect")) = 1
        /\ ~Happened("WriteError")
        /\ TheRedirect.base = UrlParse(call.returnTo).base
        /\ TheRedirect.query["code"] = OwnQuery["code"] \o <<Text(ThePut.code)>>
        /\ TheRedirect.query["state"] = OwnQuery["state"] \o StateParam
        /\ TheRedirect.query["error"] = OwnQuery["error"]
        /\ TheRedirect.query["error_code"] = OwnQuery["error_code"]

\* A redirect of RedirectSuccess that carries the error parameter of its
\* returnTo next to the code.
C6_Witness ==
    /\ RedirectSuccessCompleted
    /\ call.returnTo = <<"https://svc", "?error=old">>
    /\ call.state = "s1"
    /\ call.id = "bob"
    /\ TheRedirect.query["error"] = << <<"old">> >>
    /\ TheRedirect.query["code"] = <<Text(ThePut.code)>>
    /\ TheRedirect.query["state"] = <<Text("s1")>>

---------------------------------------------------------------------------
(* C7 *)

RedirectFailureAccepted ==
    /\ call.op = "RedirectFailure"
    /\ GateAccepts(call.returnTo)

ErrorCodeParam ==
    IF CauseCode(call.err) # NoCode THEN <<Text(CauseCode(call.err))>> ELSE <<>>

\* C7 as stated: RedirectFailure with an accepted returnTo redirects to
\* returnTo with error=<message>, error_code=<code> iff the cause of the
\* error is an error code, state=<state> iff state is not empty, and never
\* with a code parameter.
C7_FailureRedirectHasNoCode ==
    RedirectFailureAccepted =>
        /\ Len(call.events) = 1
        /\ Happened("Redirect")
        /\ TheRedirect.base = UrlParse(call.returnTo).base
        /\ TheRedirect.query["error"] = <<Text(call.err.msg)>>
        /\ TheRedirect.query["error_code"] = ErrorCodeParam
        /\ TheRedirect.query["state"] = StateParam
        /\ TheRedirect.query["code"] = <<>>

\* C7 as amended: as stated, except that the query of the redirect keeps
\* every parameter that returnTo already carries in its own query, with
\* error, error_code and state appended after them.  RedirectFailure adds
\* no code parameter, so the redirect has one only if returnTo itself has.
C7_FailureRedirectAppendsError ==
    RedirectFailureAccepted =>
        /\ Len(call.events) = 1
        /\ Happened("Redirect")
        /\ TheRedirect.base = UrlParse(call.returnTo).base
        /\ TheRedirect.query["error"] = OwnQuery["error"] \o <<Text(call.err.msg)>>
        /\ TheRedirect.query["error_code"] = OwnQuery["error_code"] \o ErrorCodeParam
        /\ TheRedirect.query["state"] = OwnQuery["state"] \o StateParam
        /\ TheRedirect.query["code"] = OwnQuery["code"]

\* A redirect of RedirectFailure that carries the code parameter of its
\* returnTo next to the error and its code.
C7_Witness ==
    /\ RedirectFailureAccepted
    /\ call.returnTo = <<"https://svc", "?code=old">>
    /\ call.err.cause = ErrBadRequest
    /\ call.state = ""
    /\ TheRedirect.query["code"] = << <<"old">> >>
    /\ TheRedirect.query["error"] = <<Text(call.err.msg)>>
    /\ TheRedirect.query["error_code"] = <<Text(ErrBadRequest)>>
    /\ TheRedirect.query["state"] = <<>>

---------------------------------------------------------------------------
(* C8 *)

TheUpdate == call.events[FirstIndex("UpdateIdentity")].arg

\* The last call minted a credential and its UpdateIdentity failed.
MintedWithFailedUpdate ==
    /\ call.op \in {"Success", "RedirectSuccess"}
    /\ Happened("UpdateIdentity")
    /\ ~TheUpdate.ok

\* No step after minting failed: the Done of successToken, Put, the gate.
NothingElseFailed ==
    /\ \A i \in 1..Len(Dones) : Dones[i].arg.err.isnil
    /\ \A i \in 1..Len(EventsOf("Put")) : EventsOf("Put")[i].arg.ok
    /\ call.op = "RedirectSuccess" => GateAccepts(call.returnTo)

\* C8: when NewMacaroon and MarshalBinary succeed, DischargeToken returns
\* the credential and no error whether UpdateIdentity succeeds or fails, the
\* same credential in both cases; and a call of Success or RedirectSuccess
\* whose UpdateIdentity failed goes on to hand the credential to Done or to
\* Put and, unless one of those or the gate fails, ends with the success
\* response and writes no error.
C8_LastLoginUpdateIsBestEffort ==
    /\ \A id \in Usernames, update \in BOOLEAN :
            LET r == DischargeToken(Start, id, now,
                        Env("ok", update, TRUE, TRUE, TRUE, TRUE, "none"))
                o == DischargeToken(Start, id, now,
                        Env("ok", ~update, TRUE, TRUE, TRUE, TRUE, "none"))
            IN  /\ ~r.panic
                /\ r.err.isnil
                /\ r.dt.Kind = "macaroon"
                /\ r.dt = o.dt
                /\ r.st.events[Len(r.st.events)].arg.ok = update
    /\ MintedWithFailedUpdate =>
            /\ call.op = "Success" /\ call.dischargeID # "" =>
                    /\ Len(Dones) >= 1
                    /\ Dones[1].arg.info.DischargeToken.Kind = "macaroon"
                    /\ Dones[1].arg.info.Error.isnil
            /\ call.op = "RedirectSuccess" =>
                    /\ Happened("Put")
                    /\ ThePut.dt.Kind = "macaroon"
            /\ NothingElseFailed =>
                    /\ ~Happened("WriteError")
                    /\ call.op = "Success" =>
                            Happened("WriteText") \/ Happened("ExecuteTemplate")
                    /\ call.op = "RedirectSuccess" =>
                            /\ Happened("Redirect")
                            /\ TheRedirect.query["error"] = OwnQuery["error"]

\* Success delivered the credential of alice and wrote the confirmation
\* although the store had refused the LastLogin update.
C8_Witness ==
    /\ MintedWithFailedUpdate
    /\ call.op = "Success"
    /\ call.id = "alice"
    /\ call.dischargeID = "abc123"
    /\ idStore["alice"] = NeverLoggedIn
    /\ Len(Dones) = 1
    /\ Dones[1].arg.err.isnil
    /\ usernameFromDischargeToken(place["abc123"].info.DischargeToken) = "alice"
    /\ Happened("WriteText")

---------------------------------------------------------------------------
(* C9 *)

\* The handlers that were returned and not yet closed and hold resource r.
Holders(r) ==
    {i \in 1..Len(handlers) :
        ~handlers[i].closed /\ r \in {handlers[i].close1, handlers[i].close2}}

\* C9: every context acquired for a request is released exactly once on
\* every exit path.  A context whose close function has not run is held by
\* exactly one handler that was returned and is not closed yet; every other
\* context has had its close function run exactly once: those of a request
\* rejected for an empty entity or a failed authorization when
\* handlerCreator returns, those of a login request when the handler
\* function returns, those of a returned handler when Close is called.
C9_ContextsReleasedExactlyOnce ==
    /\ \A r \in 1..Len(resources) :
            /\ Cardinality(Holders(r)) <= 1
            /\ resources[r].releases = IF Holders(r) = {} THEN 1 ELSE 0
    /\ request.op \in {"handlerCreator", "newIDPHandler", "Close"} =>
            /\ resources[request.first].kind = "store"
            /\ resources[request.first + 1].kind = "meeting"
            /\ request.returned =>
                    /\ Holders(request.first) # {}
                    /\ Holders(request.first) = Holders(request.first + 1)
            /\ ~request.returned =>
                    /\ resources[request.first].releases = 1
                    /\ resources[request.first + 1].releases = 1

\* handlerCreator rejected a request whose authorization failed, with both
\* contexts released and no handler left to close, while an earlier handler
\* is still open.
C9_Witness ==
    /\ request.op = "handlerCreator"
    /\ request.entity # ""
    /\ ~request.authOK
    /\ ~request.returned
    /\ resources[request.first].releases = 1
    /\ resources[request.first + 1].releases = 1
    /\ \E i \in 1..Len(handlers) : ~handlers[i].closed

---------------------------------------------------------------------------
(* C10 *)

\* The last call reached the success completion with an absent identity:
\* it is Success or the token-only completion, with a nil identity, and no
\* Done it made for a non-empty discharge id returned an error.
AbsentIdentityCompletion(ops) ==
    /\ call.op \in ops
    /\ call.id = NoIdentity
    /\ \A i \in 1..Len(Dones) : Dones[i].arg.err.isnil

\* The username the declaration of a credential yields: empty when the
\* credential is not of kind "macaroon" or its value cannot be decoded.
DeclaredUsername(dt) ==
    IF dt.Kind # "macaroon" \/ ~WellFormed(dt.Value) THEN ""
    ELSE InferDeclared(UnmarshalCaveats(dt.Value), "username")

\* The response was not aborted: the identity of the derived username was
\* looked up, nothing but the success response was written after that, and
\* the response names the derived username.
LookedUpAndWroteSuccess ==
    LET n == Len(call.events)
    IN  /\ n >= 2
        /\ ~Happened("Panic")
        /\ ~Happened("WriteError")
        /\ call.events[n - 1].ev = "Identity"
        /\ call.events[n - 1].arg.username = DeclaredUsername(call.dt)
        /\ call.events[n].ev \in {"WriteText", "ExecuteTemplate"}
        /\ call.events[n].arg.username = DeclaredUsername(call.dt)
        /\ call.dischargeID # "" =>
                /\ n = 3
                /\ Dones[1].arg.info = loginInfo(call.dt, NilBakeryError)

\* C10 as stated: when the success completion is reached with an absent
\* identity, in Success as well as in the token-only completion, the
\* response is never aborted: the username is derived from the credential,
\* the lookup is attempted, and the success response is written whether the
\* lookup succeeds or fails.
C10_AbsentIdentityNeverAborts ==
    AbsentIdentityCompletion({"Success", "successToken"}) =>
        LookedUpAndWroteSuccess

\* C10 as amended: the statement holds for the token-only completion, that
\* is when successToken is reached with an absent identity.  Success called
\* with an absent identity never reaches it: DischargeToken dereferences the
\* nil identity, the call panics, nothing is delivered to the discharge id
\* and nothing is written to the response.
C10_TokenOnlyCompletionNeverAborts ==
    /\ AbsentIdentityCompletion({"successToken"}) => LookedUpAndWroteSuccess
    /\ (call.op = "Success" /\ call.id = NoIdentity) =>
            call.events = <<Event("Panic", [op |-> "DischargeToken"])>>

\* The token-only completion presented a credential that cannot be decoded,
\* the lookup of the empty username failed, and the success text was written
\* after the outcome had been delivered.
C10_Witness ==
    /\ AbsentIdentityCompletion({"successToken"})
    /\ call.dischargeID = "abc123"
    /\ call.dt = DischargeTokenValue("macaroon", <<"junk">>)
    /\ Len(call.events) = 3
    /\ call.events[2] = Event("Identity", [username |-> "", ok |-> FALSE])
    /\ call.events[3] = Event("WriteText", [username |-> ""])

---------------------------------------------------------------------------
(* C11 *)

\* The events of the last call that write to the response.
IsWrite(e) == e.ev \in {"WriteText", "ExecuteTemplate", "WriteError"}

\* The last call is a direct success completion for a discharge id.
DirectSuccessWithID ==
    /\ call.op \in {"Success", "successToken"}
    /\ call.dischargeID # ""

\* The last call wrote the success response: the text or the page.
WroteSuccessResponse == Happened("WriteText") \/ Happened("ExecuteTemplate")

\* Rendering the confirmation page failed in the last call.
RenderingFailed ==
    /\ Happened("ExecuteTemplate")
    /\ ~call.events[FirstIndex("ExecuteTemplate")].arg.ok

\* C11: in a direct Success for a discharge id, Done is called before
\* anything is written to the response; when the success response is written
\* the Success outcome has been delivered by the only Done of the call; and
\* when rendering the confirmation page fails nothing follows it: no further
\* Done, no Failure outcome and no error response, and the discharge id
\* keeps the Success outcome until Wait takes it.
C11_DeliveredBeforeResponse ==
    DirectSuccessWithID =>
        /\ \A i \in 1..Len(call.events) :
                IsWrite(call.events[i]) =>
                    \E j \in 1..(i - 1) : IsDone(call.events[j])
        /\ WroteSuccessResponse =>
                /\ Len(Dones) = 1
                /\ Dones[1].arg.id = call.dischargeID
                /\ Dones[1].arg.err.isnil
                /\ Dones[1].arg.info.Error.isnil
                /\ FirstIndex("Done") < FirstIndex("WriteText")
                        \/ FirstIndex("Done") < FirstIndex("ExecuteTemplate")
                /\ ~Happened("WriteError")
        /\ RenderingFailed =>
                /\ call.events[Len(call.events)].ev = "ExecuteTemplate"
                /\ place[call.dischargeID].status \in {"done", "consumed"}
                /\ place[call.dischargeID].status = "done" =>
                        place[call.dischargeID].info = Dones[1].arg.info
                /\ LET ds == delivered[call.dischargeID]
                   IN  /\ Len(ds) = 1
                       /\ ds[1].info = Dones[1].arg.info
                       /\ ds[1].info.Error.isnil

\* Success for alice delivered the credential to "abc123", and rendering
\* the confirmation page failed after that.
C11_Witness ==
    /\ DirectSuccessWithID
    /\ call.op = "Success"
    /\ call.id = "alice"
    /\ RenderingFailed
    /\ place["abc123"].status = "done"
    /\ place["abc123"].info.Error.isnil
    /\ usernameFromDischargeToken(place["abc123"].info.DischargeToken) = "alice"

---------------------------------------------------------------------------
(* C12 *)

\* The positions of the caveats of macaroon m whose condition is cond.
CaveatsOf(m, cond) == {i \in 1..Len(m) : m[i].cond = cond}

\* dt is a credential of kind "macaroon" whose value decodes to a macaroon
\* with one declaration, username = id, and one expiry, 28 days (in minutes)
\* after t.
IsCredentialFor(dt, id, t) ==
    /\ dt.Kind = "macaroon"
    /\ UnmarshalBinary(dt.Value).ok
    /\ LET m == UnmarshalBinary(dt.Value).m
       IN  /\ Cardinality(CaveatsOf(m, "declared")) = 1
           /\ \A i \in CaveatsOf(m, "declared") :
                    m[i].key = "username" /\ m[i].val = id
           /\ Cardinality(CaveatsOf(m, "time-before")) = 1
           /\ \A i \in CaveatsOf(m, "time-before") :
                    m[i].val = t + 28 * 24 * 60

\* C12: every credential DischargeToken returns has Kind "macaroon",
\* declares exactly the Username of the identity it was minted for, and
\* expires exactly 28 days after the time of minting; this is so of what
\* DischargeToken returns at any time for any identity, and of the
\* credential Success hands to Done and RedirectSuccess hands to Put.
C12_CredentialDeclaresUserFor28Days ==
    /\ \A id \in Usernames, update \in BOOLEAN, mint \in MintOutcomes :
            LET r == DischargeToken(Start, id, now,
                        Env(mint, update, TRUE, TRUE, TRUE, TRUE, "none"))
            IN  IF r.err.isnil
                THEN mint = "ok" /\ IsCredentialFor(r.dt, id, now)
                ELSE r.dt = NoToken
    /\ (call.op = "Success" /\ Happened("UpdateIdentity")
            /\ call.dischargeID # "") =>
            IsCredentialFor(Dones[1].arg.info.DischargeToken, call.id, call.at)
    /\ (call.op = "RedirectSuccess" /\ Happened("Put")) =>
            IsCredentialFor(ThePut.dt, call.id, call.at)

\* RedirectSuccess minted a credential for bob at time 12; it expires 28
\* days later.
C12_Witness ==
    /\ call.op = "RedirectSuccess"
    /\ call.id = "bob"
    /\ call.at = TickStep
    /\ PutSucceeded
    /\ ExpiryOf(UnmarshalCaveats(ThePut.dt.Value)) = 40320 + TickStep
    /\ usernameFromDischargeToken(ThePut.dt) = "bob"

---------------------------------------------------------------------------
(* C13 *)

\* A step of the last call named ev returned an error.
StepFailed(ev) ==
    \E i \in 1..Len(call.events) :
        call.events[i].ev = ev /\ ~call.events[i].arg.ok

\* Minting failed inside the last call, which is a call of Success.
MintFailedInSuccess ==
    /\ call.op = "Success"
    /\ StepFailed("NewMacaroon") \/ StepFailed("MarshalBinary")

\* The errors DischargeToken returns when minting fails, as Success masks
\* them.
MaskedMintErrors ==
    {Mask(Err(m, NoCode)) : m \in {"cannot mint macaroon",
                                   "cannot marshal macaroon"}}

\* What a call of Success in which minting failed has done when it returns.
EndedAsFailure ==
    LET n == Len(call.events)
    IN  /\ ~Happened("UpdateIdentity")
        /\ ~Happened("WriteText")
        /\ ~Happened("ExecuteTemplate")
        /\ Len(EventsOf("WriteError")) = 1
        /\ call.events[n].ev = "WriteError"
        /\ call.events[n].arg.err \in MaskedMintErrors
        /\ IF call.dischargeID = "" THEN Dones = <<>>
           ELSE /\ Len(Dones) = 1
                /\ Dones[1].arg.id = call.dischargeID
                /\ Dones[1].arg.info.DischargeToken = NoToken
                /\ Dones[1].arg.info.Error =
                        ErrorToResponse(call.events[n].arg.err)
                /\ FirstIndex("Done") = n - 1
                /\ Dones[1].arg.err.isnil =>
                        place[call.dischargeID] = Slot("done", Dones[1].arg.info)

\* C13: a call of Success in which minting fails ends as a Failure: for a
\* discharge id that is not empty Done is called once, with a Failure
\* outcome and no credential, and holds that outcome if Done accepted it;
\* the masked minting error is written to the response; no confirmation
\* text or page is written; and the call leaves the identity store as it
\* found it, the LastLogin of the identity included.
C13_MintFailureEndsAsFailure ==
    [][(Idle /\ MintFailedInSuccess') =>
            /\ EndedAsFailure'
            /\ idStore' = idStore
            /\ tokenStore' = tokenStore]_vars

\* Marshalling the macaroon failed in Success for bob and "abc123": the
\* Failure outcome was delivered and bob has still never logged in.
C13_Witness ==
    /\ MintFailedInSuccess
    /\ StepFailed("MarshalBinary")
    /\ call.id = "bob"
    /\ call.dischargeID = "abc123"
    /\ place["abc123"].status = "done"
    /\ ~place["abc123"].info.Error.isnil
    /\ idStore["bob"] = NeverLoggedIn

---------------------------------------------------------------------------
(* C14 *)

\* In the last call successToken called Done with the Success outcome and
\* Done returned an error.
SuccessDoneFailed ==
    /\ call.op \in {"Success", "successToken"}
    /\ Dones # <<>>
    /\ Dones[1].arg.info.Error.isnil
    /\ ~Dones[1].arg.err.isnil

\* C14: when Done returns an error while delivering the Success outcome in
\* successToken, neither the confirmation page nor the "Login successful"
\* text is written and no identity is looked up; Failure is called with the
\* same discharge id and the masked error of Done: it calls Done once more,
\* for that id and with the Failure outcome of that error, and then writes
\* that error to the response, which ends the call.
C14_DoneErrorFallsBackToFailure ==
    SuccessDoneFailed =>
        LET n == Len(call.events)
            e == Mask(Dones[1].arg.err)
        IN  /\ ~Happened("WriteText")
            /\ ~Happened("ExecuteTemplate")
            /\ ~Happened("Identity")
            /\ call.dischargeID # ""
            /\ Len(Dones) = 2
            /\ Dones[1].arg.id = call.dischargeID
            /\ Dones[2].arg.id = call.dischargeID
            /\ Dones[2].arg.info = loginInfo(NoToken, ErrorToResponse(e))
            /\ Len(EventsOf("WriteError")) = 1
            /\ call.events[n] = Event("WriteError", [err |-> e])
            /\ call.events[n - 1] = Dones[2]
            /\ call.events[n - 2] = Dones[1]

\* A token-only completion for "abc123" found no pending rendezvous: Done
\* refused the Success outcome and the error was written instead of the
\* success text.
C14_Witness ==
    /\ SuccessDoneFailed
    /\ call.op = "successToken"
    /\ call.dischargeID = "abc123"
    /\ Dones[1].arg.err.msg = "rendezvous not found"
    /\ call.events[Len(call.events)].ev = "WriteError"
    /\ call.events[Len(call.events)].arg.err.msg = "rendezvous not found"

---------------------------------------------------------------------------
(* C15 *)

\* The number of responses the last call produced.
Responses == Len(EventsOf("Redirect")) + Len(EventsOf("WriteError"))

\* Minting or Put failed in the last call, which is a call of RedirectSuccess.
StepFailedInRedirectSuccess ==
    /\ call.op = "RedirectSuccess"
    /\ StepFailed("NewMacaroon") \/ StepFailed("MarshalBinary")
            \/ StepFailed("Put")

\* The last call ended as RedirectFailure ends for the returnTo and the
\* state of the call and a masked error of minting or Put: a redirect with
\* the error and the state if the gate accepts returnTo, the error written
\* inline if not.
EndedInRedirectFailure ==
    IF GateAccepts(call.returnTo)
    THEN /\ Happened("Redirect")
         /\ ~Happened("WriteError")
         /\ TheRedirect.base = UrlParse(call.returnTo).base
         /\ \E e \in MaskedStepErrors :
                TheRedirect.query["error"] = OwnQuery["error"] \o <<Text(e.msg)>>
         /\ TheRedirect.query["state"] = OwnQuery["state"] \o StateParam
         /\ TheRedirect.query["error_code"] = OwnQuery["error_code"]
         /\ TheRedirect.query["code"] = OwnQuery["code"]
    ELSE /\ ~Happened("Redirect")
         /\ Happened("WriteError")
         /\ EventsOf("WriteError")[1].arg.err \in MaskedStepErrors

\* The redirect of the last call has a code and an error parameter.
CodeSentWithError ==
    /\ Happened("Redirect")
    /\ TheRedirect.query["code"] # <<>>
    /\ TheRedirect.query["error"] # <<>>

\* C15 as stated: every call of RedirectSuccess or RedirectFailure produces
\* exactly one response, a redirect or an inline error; when minting or Put
\* fails RedirectSuccess ends in RedirectFailure with the same returnTo and
\* state; and no redirect carries a code together with an error.
C15_OneResponseNeverCodeWithError ==
    IsRedirectCall =>
        /\ Responses = 1
        /\ StepFailedInRedirectSuccess => EndedInRedirectFailure
        /\ ~CodeSentWithError

\* C15 as amended: a call of RedirectFailure, and a call of RedirectSuccess
\* with an identity, produces exactly one response, a redirect or an inline
\* error, while RedirectSuccess called with an absent identity panics in
\* DischargeToken and produces none.  When minting or Put fails
\* RedirectSuccess ends in RedirectFailure with the same returnTo and state.
\* A redirect of RedirectSuccess gets no error parameter added and one of
\* RedirectFailure no code parameter, so a redirect carries a code together
\* with an error only when returnTo itself carries a code or an error
\* parameter, which the redirect keeps.
C15_OneResponseUnlessPanic ==
    IsRedirectCall =>
        /\ Happened("Panic") <=>
                (call.op = "RedirectSuccess" /\ call.id = NoIdentity)
        /\ Responses = IF Happened("Panic") THEN 0 ELSE 1
        /\ Happened("Panic") => Len(call.events) = 1
        /\ StepFailedInRedirectSuccess => EndedInRedirectFailure
        /\ Happened("Redirect") =>
                IF call.op = "RedirectSuccess" /\ PutSucceeded
                THEN TheRedirect.query["error"] = OwnQuery["error"]
                ELSE TheRedirect.query["code"] = OwnQuery["code"]
        /\ CodeSentWithError =>
                OwnQuery["code"] # <<>> \/ OwnQuery["error"] # <<>>

\* Put failed in RedirectSuccess for a returnTo that carries a code
\* parameter: the one response is a redirect with that code and the error.
C15_Witness ==
    /\ StepFailedInRedirectSuccess
    /\ StepFailed("Put")
    /\ call.returnTo = <<"https://svc", "?code=old">>
    /\ Responses = 1
    /\ CodeSentWithError
    /\ TheRedirect.query["code"] = << <<"old">> >>
    /\ TheRedirect.query["error"] = <<Text("cannot store discharge token")>>

---------------------------------------------------------------------------
(* C16 *)

\* The last call is a RedirectSuccess in which minting and Put succeeded and
\* the gate rejected returnTo.
StoredThenRejected ==
    /\ call.op = "RedirectSuccess"
    /\ PutSucceeded
    /\ ~GateAccepts(call.returnTo)

\* The credential was minted and stored before the gate refused the
\* redirect: the call has set the identity's LastLogin and issued the
\* update, then stored a credential of the identity under a code, and only
\* then written the BadRequest error of the gate; the entry is in the store,
\* no redirect was issued and the one response does not carry the code.
MintedAndStoredBeforeGate ==
    /\ Len(call.events) = 5
    /\ call.events[1] = Event("NewMacaroon", [ok |-> TRUE])
    /\ call.events[2] = Event("MarshalBinary", [ok |-> TRUE])
    /\ call.events[3].ev = "UpdateIdentity"
    /\ call.events[3].arg.username = call.id
    /\ call.events[3].arg.LastLogin = call.at
    /\ call.events[4].ev = "Put"
    /\ usernameFromDischargeToken(ThePut.dt) = call.id
    /\ [code |-> ThePut.code, dt |-> ThePut.dt, expire |-> ThePut.expire]
            \in tokenStore
    /\ call.events[5].ev = "WriteError"
    /\ call.events[5].arg.err.cause = ErrBadRequest
    /\ call.events[5].arg.err.msg \in
            {"invalid return_to", "invalid return_to: invalid URL escape"}
    /\ ~Happened("Redirect")

\* A returnTo the gate rejects does not keep RedirectSuccess from minting
\* and storing: the call starts with NewMacaroon and, when minting
\* succeeded, goes on to Put.
GateEvaluatedLast ==
    (call.op = "RedirectSuccess" /\ call.id # NoIdentity
        /\ ~GateAccepts(call.returnTo)) =>
        /\ call.events[1].ev = "NewMacaroon"
        /\ Happened("UpdateIdentity") => Happened("Put")
        /\ call.events[Len(call.events)].ev = "WriteError"

\* C16 as stated: when the gate rejects returnTo in RedirectSuccess and
\* minting and Put succeeded, the entry has been added to the
\* DischargeTokenStore and the LastLogin of the identity has been updated,
\* although no redirect is issued and the code is sent to nobody.
C16_LastLoginUpdatedBeforeGate ==
    /\ GateEvaluatedLast
    /\ StoredThenRejected =>
            /\ MintedAndStoredBeforeGate
            /\ idStore[call.id] = call.at

\* C16 as amended: as stated, except for LastLogin: the update has been
\* issued before the gate is evaluated, and the identity store holds the new
\* LastLogin if UpdateIdentity succeeded; if it failed, which stops neither
\* minting nor Put, the store holds the LastLogin it held before.
C16_StoredBeforeGate ==
    [][/\ GateEvaluatedLast'
       /\ (Idle /\ StoredThenRejected') =>
            /\ MintedAndStoredBeforeGate'
            /\ idStore' = IF TheUpdate'.ok
                           THEN [idStore EXCEPT ![call'.id] = call'.at]
                           ELSE idStore
            /\ tokenStore' = tokenStore \cup
                    {[code |-> ThePut'.code, dt |-> ThePut'.dt,
                      expire |-> call'.at + TenMinutes]}
            /\ tokenStore' # tokenStore]_vars

\* RedirectSuccess for alice stored a credential under a code although
\* returnTo does not start with Location, and the identity store refused
\* the LastLogin update.
C16_Witness ==
    /\ StoredThenRejected
    /\ call.id = "alice"
    /\ call.returnTo = <<"?code=old", "https://svc">>
    /\ ~TheUpdate.ok
    /\ idStore["alice"] = NeverLoggedIn
    /\ tokenStore # {}
    /\ ~Happened("Redirect")

---------------------------------------------------------------------------
(* C17 *)

\* The last call is a completion of the direct mode.
IsDirectCall == call.op \in {"Success", "Failure"}

\* The last call wrote a response.
WroteResponse == WroteSuccessResponse \/ Happened("WriteError")

\* What the calls of each mode leave alone: a redirect completion calls no
\* Done and leaves the rendezvous place as it was; a direct completion makes
\* no Put, issues no redirect and leaves the discharge token store as it
\* was; a direct completion with an empty discharge id calls no Done and
\* leaves the rendezvous place as it was.
ModesKeepApart ==
    /\ IsRedirectCall' =>
            /\ Dones' = <<>>
            /\ place' = place
            /\ delivered' = delivered
    /\ IsDirectCall' =>
            /\ ~Happened("Put")'
            /\ ~Happened("Redirect")'
            /\ tokenStore' = tokenStore
            /\ nextCode' = nextCode
    /\ (IsDirectCall' /\ call'.dischargeID = "") =>
            /\ Dones' = <<>>
            /\ place' = place
            /\ delivered' = delivered

\* C17 as stated: the two modes keep apart, and Success or Failure called
\* with an empty discharge id still writes a response.
C17_EmptyIdStillWritesResponse ==
    [][Idle =>
            /\ ModesKeepApart
            /\ (IsDirectCall' /\ call'.dischargeID = "") => WroteResponse']_vars

\* C17 as amended: the two modes keep apart; Failure called with an empty
\* discharge id, and Success called with an empty discharge id and an
\* identity, call Done for no id and write exactly one response, while
\* Success called with an absent identity panics in DischargeToken and
\* writes nothing, whatever the discharge id.
C17_ModesKeepApart ==
    [][Idle =>
            /\ ModesKeepApart
            /\ (IsDirectCall' /\ call'.dischargeID = "") =>
                    IF call'.op = "Success" /\ call'.id = NoIdentity
                    THEN ~WroteResponse' /\ Happened("Panic")'
                    ELSE /\ WroteResponse'
                         /\ ~Happened("Panic")'
                         /\ Cardinality({i \in 1..Len(call'.events) :
                                IsWrite(call'.events[i])}) = 1
            /\ (call'.op = "Success" /\ call'.id = NoIdentity) =>
                    ~WroteResponse']_vars

\* Success for alice with an empty discharge id wrote the success text
\* while a rendezvous was pending: no Done was called, the rendezvous is
\* still pending and the discharge token store is empty.
C17_Witness ==
    /\ call.op = "Success"
    /\ call.dischargeID = ""
    /\ call.id = "alice"
    /\ Dones = <<>>
    /\ Happened("WriteText")
    /\ place["abc123"].status = "pending"
    /\ tokenStore = {}

====
